---- MODULE Spec2Model ----
(***************************************************************************)
(* Model of the two OAuth refresh-token utilities of icloud-photo-sync:    *)
(*   get_refresh_token.py            (manual flow: the code is typed in)   *)
(*   get_refresh_token_localhost.py  (local-redirect flow: a listener      *)
(*                                    thread captures the redirect)        *)
(* One run of one script is one behaviour.  The main thread is pc, the     *)
(* listener thread of the local-redirect flow is lpc.  Strings that the    *)
(* code inspects character by character (the typed line, query values)     *)
(* are sequences of one-character strings.  Python's None is None == {}    *)
(* and a present value v is Some(v) == {v}.                                *)
(***************************************************************************)
EXTENDS Integers, Sequences, FiniteSets, TLC

\* ---------------------------------------------------------------- bounds
MaxTime == 400        \* seconds after which the clock saturates
Quantum == 200        \* seconds added by one clock step
MaxRequests == 2      \* inbound HTTP requests dispatched per run
MaxParams == 2        \* query parameters per inbound request

\* ------------------------------------------------------ program constants
HTTPD_TIMEOUT == 300
WAIT_TIMEOUT == 300

\* ------------------------------------------------------------ value sets
None == {}
Some(v) == {v}
TheVal(o) == CHOOSE v \in o : TRUE

Whitespace == {" ", "\t"}
Lines == { <<>>, <<" ">>, <<" ", "\t">>, <<"A">>, <<" ", "A", " ">>,
           <<"A", " ", "B">>, <<"\t", "B">> }

Keys == {"code", "error", "state"}
Vals == { <<>>, <<"A">>, <<"B">> }
Queries == UNION { [1..n -> Keys \X Vals] : n \in 0..MaxParams }

TokenStrings == {"", "R1"}
NoTokens == [refresh_token |-> None, access_token |-> None]
TokenBodies == [refresh_token : {None} \cup {Some(t) : t \in TokenStrings},
                access_token : {None, Some("A1")}]
Responses == {[kind |-> "ok", tokens |-> b] : b \in TokenBodies}
             \cup {[kind |-> k, tokens |-> NoTokens] :
                      k \in {"malformed", "http_error", "network_error"}}
NoResponse == [kind |-> "none", tokens |-> NoTokens]

Min(a, b) == IF a <= b THEN a ELSE b

\* --------------------------------------------------------- pure functions
\* str.strip(): drop leading and trailing whitespace
RECURSIVE LStrip(_)
LStrip(s) == IF s # <<>> /\ Head(s) \in Whitespace THEN LStrip(Tail(s)) ELSE s

RECURSIVE RStrip(_)
RStrip(s) == IF s # <<>> /\ s[Len(s)] \in Whitespace
             THEN RStrip(SubSeq(s, 1, Len(s) - 1)) ELSE s

\* variant: the typed line is used as it is, without .strip()
Strip_Unstripped(s) == s

Strip(s) == RStrip(LStrip(s))

\* parse_qs(query): for every key the list of its non-blank values, in
\* order; a key is "in" the result iff that list is non-empty
ValuesOf(q, k) ==
    LET sel == SelectSeq(q, LAMBDA p : p[1] = k /\ p[2] # <<>>)
    IN  [i \in 1..Len(sel) |-> sel[i][2]]

ParseQs(q) == [k \in Keys |-> ValuesOf(q, k)]

HasKey(qp, k) == Len(qp[k]) > 0

\* Python truthiness of the stored code: None and "" are falsy
Truthy(o) == o # None /\ o # Some(<<>>)

\* ------------------------------------------------------------------ state
VARIABLES
    flow,              \* "manual" | "localhost": which script runs
    creds,             \* both credential environment variables are set
    pc,                \* position of the main thread
    exitCode,          \* process exit status, meaningful when pc = "exited"
    browser,           \* "none" | "opened" | "failed"
    auth_code,         \* global auth_code
    code_received,     \* threading.Event code_received
    lpc,               \* position of the listener thread
    bound,             \* the listener socket is bound to port 8080
    now,               \* clock, seconds, saturating at MaxTime
    mDeadline,         \* deadline of code_received.wait(timeout=300)
    lDeadline,         \* deadline of the current httpd.handle_request()
    handled,           \* requests dispatched to OAuthHandler.do_GET
    captures,          \* assignments made to auth_code by do_GET
    firstCode,         \* value of the first callback carrying a code
    setCount,          \* calls of code_received.set()
    lTimedOut,         \* some handle_request() returned by timeout
    mTimedOut,         \* code_received.wait returned by timeout
    codeBeforeTimeout, \* a code had been captured when the wait timed out
    lastStatus,        \* status passed to the last send_response()
    errorSeen,         \* an error callback has been answered
    codeAfterError,    \* a code was captured after an error callback
    inputLine,         \* the line typed by the operator (manual flow)
    postCount,         \* POSTs sent to the token endpoint
    postCode,          \* the code field of the POST body
    response,          \* what the token endpoint answered
    outcome,           \* which report the script printed for the exchange
    file,              \* contents of refresh_token.txt, None when absent
    file0,             \* contents of refresh_token.txt before the run
    fileWrites         \* times refresh_token.txt was opened for writing

mainVars == <<pc, exitCode, browser, mDeadline, mTimedOut, codeBeforeTimeout,
              inputLine, postCount, postCode, response, outcome, file,
              fileWrites>>
listenerVars == <<lpc, bound, lDeadline, handled, captures, firstCode,
                  setCount, lTimedOut, lastStatus, errorSeen, codeAfterError>>
envVars == <<flow, creds, file0>>
vars == <<flow, creds, pc, exitCode, browser, auth_code, code_received, lpc,
          bound, now, mDeadline, lDeadline, handled, captures, firstCode,
          setCount, lTimedOut, mTimedOut, codeBeforeTimeout, lastStatus,
          errorSeen, codeAfterError, inputLine, postCount, postCode,
          response, outcome, file, file0, fileWrites>>

Init ==
    /\ flow \in {"manual", "localhost"}
    /\ creds \in BOOLEAN
    /\ file0 \in {None, Some("OLD")}
    /\ file = file0
    /\ pc = "config"
    /\ exitCode = 0
    /\ browser = "none"
    /\ auth_code = None
    /\ code_received = FALSE
    /\ lpc = "idle"
    /\ bound = FALSE
    /\ now = 0
    /\ mDeadline = 0
    /\ lDeadline = 0
    /\ handled = 0
    /\ captures = 0
    /\ firstCode = None
    /\ setCount = 0
    /\ lTimedOut = FALSE
    /\ mTimedOut = FALSE
    /\ codeBeforeTimeout = FALSE
    /\ lastStatus = 0
    /\ errorSeen = FALSE
    /\ codeAfterError = FALSE
    /\ inputLine = None
    /\ postCount = 0
    /\ postCode = None
    /\ response = NoResponse
    /\ outcome = "none"
    /\ fileWrites = 0

\* exit(n): the process ends; the daemon listener thread ends with it
Exit(n) == pc' = "exited" /\ exitCode' = n

\* ------------------------------------------------------------ main thread
\* credential check at import time
CheckConfig ==
    /\ pc = "config"
    /\ IF ~creds
       THEN Exit(1)
       ELSE /\ pc' = IF flow = "manual" THEN "open_browser" ELSE "start_thread"
            /\ UNCHANGED exitCode
    /\ UNCHANGED <<browser, mDeadline, mTimedOut, codeBeforeTimeout,
                   inputLine, postCount, postCode, response, outcome, file,
                   fileWrites>>
    /\ UNCHANGED <<listenerVars, envVars, auth_code, code_received, now>>

\* threading.Thread(target=start_local_server, daemon=True).start()
StartThread ==
    /\ pc = "start_thread"
    /\ pc' = "open_browser"
    /\ lpc' = "bind"
    /\ UNCHANGED <<exitCode, browser, mDeadline, mTimedOut, codeBeforeTimeout,
                   inputLine, postCount, postCode, response, outcome, file,
                   fileWrites>>
    /\ UNCHANGED <<bound, lDeadline, handled, captures, firstCode, setCount,
                   lTimedOut, lastStatus, errorSeen, codeAfterError>>
    /\ UNCHANGED <<envVars, auth_code, code_received, now>>

\* try: webbrowser.open(auth_url) except: print(...)
OpenBrowser ==
    /\ pc = "open_browser"
    /\ \E ok \in BOOLEAN : browser' = IF ok THEN "opened" ELSE "failed"
    /\ pc' = IF flow = "manual" THEN "input" ELSE "begin_wait"
    /\ UNCHANGED <<exitCode, mDeadline, mTimedOut, codeBeforeTimeout,
                   inputLine, postCount, postCode, response, outcome, file,
                   fileWrites>>
    /\ UNCHANGED <<listenerVars, envVars, auth_code, code_received, now>>

\* code_received.wait(timeout=300) is entered
BeginWait ==
    /\ pc = "begin_wait"
    /\ pc' = "wait"
    /\ mDeadline' = Min(now + WAIT_TIMEOUT, MaxTime)
    /\ UNCHANGED <<exitCode, browser, mTimedOut, codeBeforeTimeout,
                   inputLine, postCount, postCode, response, outcome, file,
                   fileWrites>>
    /\ UNCHANGED <<listenerVars, envVars, auth_code, code_received, now>>

\* the wait returns because the event is set
WaitSignalled ==
    /\ pc = "wait"
    /\ code_received
    /\ pc' = "check"
    /\ UNCHANGED <<exitCode, browser, mDeadline, mTimedOut, codeBeforeTimeout,
                   inputLine, postCount, postCode, response, outcome, file,
                   fileWrites>>
    /\ UNCHANGED <<listenerVars, envVars, auth_code, code_received, now>>

\* the wait returns because 300 seconds elapsed with the event unset
WaitTimeout ==
    /\ pc = "wait"
    /\ ~code_received
    /\ now >= mDeadline
    /\ pc' = "check"
    /\ mTimedOut' = TRUE
    /\ codeBeforeTimeout' = (captures > 0)
    /\ UNCHANGED <<exitCode, browser, mDeadline, inputLine, postCount,
                   postCode, response, outcome, file, fileWrites>>
    /\ UNCHANGED <<listenerVars, envVars, auth_code, code_received, now>>

\* variant: the decision is taken on the result of the wait
CheckCode_ByWaitResult ==
    /\ pc = "check"
    /\ IF ~mTimedOut
       THEN pc' = "post" /\ UNCHANGED exitCode
       ELSE pc' = "exited" /\ exitCode' = 1
    /\ UNCHANGED <<browser, mDeadline, mTimedOut, codeBeforeTimeout,
                   inputLine, postCount, postCode, response, outcome, file,
                   fileWrites>>
    /\ UNCHANGED <<listenerVars, envVars, auth_code, code_received, now>>

\* if not auth_code: print("Timeout ..."); exit(1)
CheckCode ==
    /\ pc = "check"
    /\ IF Truthy(auth_code)
       THEN pc' = "post" /\ UNCHANGED exitCode
       ELSE Exit(1)
    /\ UNCHANGED <<browser, mDeadline, mTimedOut, codeBeforeTimeout,
                   inputLine, postCount, postCode, response, outcome, file,
                   fileWrites>>
    /\ UNCHANGED <<listenerVars, envVars, auth_code, code_received, now>>

\* auth_code = input(...).strip(); if not auth_code: exit(1)
ReadInput ==
    /\ pc = "input"
    /\ \E line \in Lines :
          /\ inputLine' = Some(line)
          /\ auth_code' = Some(Strip(line))
          /\ IF Truthy(Some(Strip(line)))
             THEN pc' = "post" /\ UNCHANGED exitCode
             ELSE Exit(1)
    /\ UNCHANGED <<browser, mDeadline, mTimedOut, codeBeforeTimeout,
                   postCount, postCode, response, outcome, file, fileWrites>>
    /\ UNCHANGED <<listenerVars, envVars, code_received, now>>

\* data = urlencode({"code": auth_code, ...}); urlopen(req) sends the POST
Post ==
    /\ pc = "post"
    /\ pc' = "await_response"
    /\ postCount' = postCount + 1
    /\ postCode' = auth_code
    /\ UNCHANGED <<exitCode, browser, mDeadline, mTimedOut, codeBeforeTimeout,
                   inputLine, response, outcome, file, fileWrites>>
    /\ UNCHANGED <<listenerVars, envVars, auth_code, code_received, now>>

\* which report the try/except prints for an answer of the token endpoint
OutcomeOf(r) ==
    CASE r.kind = "ok" /\ r.tokens.refresh_token # None -> "success"
      [] r.kind = "ok" /\ r.tokens.refresh_token = None -> "no_refresh_token"
      [] r.kind = "http_error" -> "http_error"
      [] OTHER -> "unexpected_error"

\* variant: the file is written for every 2xx JSON answer, with the access
\* token when the refresh token is missing
HandleResponse_WritesAnyToken ==
    /\ pc = "await_response"
    /\ \E r \in Responses :
          /\ response' = r
          /\ outcome' = OutcomeOf(r)
          /\ IF r.kind = "ok"
             THEN /\ file' = IF r.tokens.refresh_token # None
                             THEN r.tokens.refresh_token
                             ELSE r.tokens.access_token
                  /\ fileWrites' = fileWrites + 1
             ELSE UNCHANGED <<file, fileWrites>>
    /\ pc' = "exited"
    /\ exitCode' = 0
    /\ UNCHANGED <<browser, mDeadline, mTimedOut, codeBeforeTimeout,
                   inputLine, postCount, postCode>>
    /\ UNCHANGED <<listenerVars, envVars, auth_code, code_received, now>>

\* the body of the try/except, then the script runs off its end
HandleResponse ==
    /\ pc = "await_response"
    /\ \E r \in Responses :
          /\ response' = r
          /\ outcome' = OutcomeOf(r)
          /\ IF OutcomeOf(r) = "success"
             THEN /\ file' = Some(TheVal(r.tokens.refresh_token))
                  /\ fileWrites' = fileWrites + 1
             ELSE UNCHANGED <<file, fileWrites>>
    /\ Exit(0)
    /\ UNCHANGED <<browser, mDeadline, mTimedOut, codeBeforeTimeout,
                   inputLine, postCount, postCode>>
    /\ UNCHANGED <<listenerVars, envVars, auth_code, code_received, now>>

\* -------------------------------------------------------- listener thread
\* every step of the daemon thread needs the process to be alive
Alive == pc # "exited"

\* httpd = socketserver.TCPServer(("", port), handler); httpd.timeout = 300
\* (the bind raises OSError when the port is taken: the thread dies)
Bind ==
    /\ Alive
    /\ lpc = "bind"
    /\ \E ok \in BOOLEAN :
          IF ok THEN lpc' = "loop" /\ bound' = TRUE
                ELSE lpc' = "dead" /\ bound' = FALSE
    /\ UNCHANGED <<lDeadline, handled, captures, firstCode, setCount,
                   lTimedOut, lastStatus, errorSeen, codeAfterError>>
    /\ UNCHANGED <<mainVars, envVars, auth_code, code_received, now>>

\* while not code_received.is_set(): httpd.handle_request()
\* return auth_code  (the server object is dropped, its socket closed)
LoopCheck ==
    /\ Alive
    /\ lpc = "loop"
    /\ IF code_received
       THEN lpc' = "returned" /\ bound' = FALSE /\ UNCHANGED lDeadline
       ELSE /\ lpc' = "accept"
            /\ lDeadline' = Min(now + HTTPD_TIMEOUT, MaxTime)
            /\ UNCHANGED bound
    /\ UNCHANGED <<handled, captures, firstCode, setCount, lTimedOut,
                   lastStatus, errorSeen, codeAfterError>>
    /\ UNCHANGED <<mainVars, envVars, auth_code, code_received, now>>

\* handle_request() saw no connection for httpd.timeout seconds and returns
AcceptTimeout ==
    /\ Alive
    /\ lpc = "accept"
    /\ now >= lDeadline
    /\ lpc' = "loop"
    /\ lTimedOut' = TRUE
    /\ UNCHANGED <<bound, lDeadline, handled, captures, firstCode, setCount,
                   lastStatus, errorSeen, codeAfterError>>
    /\ UNCHANGED <<mainVars, envVars, auth_code, code_received, now>>

\* variant: do_GET without "global auth_code": the code stays in a local
Dispatch_LocalAssignment(q) ==
    /\ pc # "exited"
    /\ lpc = "accept"
    /\ handled < MaxRequests
    /\ handled' = handled + 1
    /\ LET query_params == ParseQs(q) IN
       IF HasKey(query_params, "code")
       THEN /\ captures' = captures + 1
            /\ firstCode' = IF captures = 0
                            THEN Some(query_params["code"][1]) ELSE firstCode
            /\ codeAfterError' = (codeAfterError \/ errorSeen)
            /\ lpc' = "respond_code"
            /\ UNCHANGED auth_code
       ELSE /\ lpc' = IF HasKey(query_params, "error")
                      THEN "respond_error" ELSE "respond_other"
            /\ UNCHANGED <<auth_code, captures, firstCode, codeAfterError>>
    /\ UNCHANGED <<bound, lDeadline, setCount, lTimedOut, lastStatus,
                   errorSeen>>
    /\ UNCHANGED <<mainVars, envVars, code_received, now>>

\* do_GET up to its branch: parse the query, and store the code if present
Dispatch(q) ==
    /\ Alive
    /\ lpc = "accept"
    /\ handled < MaxRequests
    /\ handled' = handled + 1
    /\ LET query_params == ParseQs(q) IN
       IF HasKey(query_params, "code")
       THEN /\ auth_code' = Some(query_params["code"][1])
            /\ captures' = captures + 1
            /\ firstCode' = IF captures = 0
                            THEN Some(query_params["code"][1]) ELSE firstCode
            /\ codeAfterError' = (codeAfterError \/ errorSeen)
            /\ lpc' = "respond_code"
       ELSE /\ lpc' = IF HasKey(query_params, "error")
                      THEN "respond_error" ELSE "respond_other"
            /\ UNCHANGED <<auth_code, captures, firstCode, codeAfterError>>
    /\ UNCHANGED <<bound, lDeadline, setCount, lTimedOut, lastStatus,
                   errorSeen>>
    /\ UNCHANGED <<mainVars, envVars, code_received, now>>

\* send_response(200) ... wfile.write(success page); a failed write raises,
\* handle_request() reports it and returns without code_received.set()
RespondCode ==
    /\ Alive
    /\ lpc = "respond_code"
    /\ lastStatus' = 200
    /\ \E written \in BOOLEAN : lpc' = IF written THEN "set" ELSE "loop"
    /\ UNCHANGED <<bound, lDeadline, handled, captures, firstCode, setCount,
                   lTimedOut, errorSeen, codeAfterError>>
    /\ UNCHANGED <<mainVars, envVars, auth_code, code_received, now>>

\* code_received.set()
SetSignal ==
    /\ Alive
    /\ lpc = "set"
    /\ code_received' = TRUE
    /\ setCount' = setCount + 1
    /\ lpc' = "loop"
    /\ UNCHANGED <<bound, lDeadline, handled, captures, firstCode, lTimedOut,
                   lastStatus, errorSeen, codeAfterError>>
    /\ UNCHANGED <<mainVars, envVars, auth_code, now>>

\* variant: an error callback also signals completion
RespondError_SignalsCompletion ==
    /\ pc # "exited"
    /\ lpc = "respond_error"
    /\ lastStatus' = 400
    /\ errorSeen' = TRUE
    /\ code_received' = TRUE
    /\ setCount' = setCount + 1
    /\ lpc' = "loop"
    /\ UNCHANGED <<bound, lDeadline, handled, captures, firstCode, lTimedOut,
                   codeAfterError>>
    /\ UNCHANGED <<mainVars, envVars, auth_code, now>>

\* elif 'error' in query_params: send_response(400) ... wfile.write(page)
RespondError ==
    /\ Alive
    /\ lpc = "respond_error"
    /\ lastStatus' = 400
    /\ errorSeen' = TRUE
    /\ lpc' = "loop"
    /\ UNCHANGED <<bound, lDeadline, handled, captures, firstCode, setCount,
                   lTimedOut, codeAfterError>>
    /\ UNCHANGED <<mainVars, envVars, auth_code, code_received, now>>

\* else: send_response(200) ... wfile.write(waiting page)
RespondOther ==
    /\ Alive
    /\ lpc = "respond_other"
    /\ lastStatus' = 200
    /\ lpc' = "loop"
    /\ UNCHANGED <<bound, lDeadline, handled, captures, firstCode, setCount,
                   lTimedOut, errorSeen, codeAfterError>>
    /\ UNCHANGED <<mainVars, envVars, auth_code, code_received, now>>

\* ------------------------------------------------------------------ clock
\* time passes while the process runs; at MaxTime the clock saturates and
\* every pending timeout may fire
Tick ==
    /\ Alive
    /\ now < MaxTime
    /\ now' = Min(now + Quantum, MaxTime)
    /\ UNCHANGED <<mainVars, listenerVars, envVars, auth_code, code_received>>

\* ---------------------------------------------------------- specification
Next ==
    \/ CheckConfig
    \/ StartThread
    \/ OpenBrowser
    \/ BeginWait
    \/ WaitSignalled
    \/ WaitTimeout
    \/ CheckCode
    \/ ReadInput
    \/ Post
    \/ HandleResponse
    \/ Bind
    \/ LoopCheck
    \/ AcceptTimeout
    \/ \E q \in Queries : Dispatch(q)
    \/ RespondCode
    \/ SetSignal
    \/ RespondError
    \/ RespondOther
    \/ Tick

Spec == Init /\ [][Next]_vars

\* ----------------------------------------------------------------- claims
ExchangeFailed == response.kind \in {"http_error", "network_error", "malformed"}

ListenerDispatching == lpc \in {"loop", "accept", "respond_code", "set",
                                "respond_error", "respond_other"}

AllBlank(line) == \A i \in 1..Len(line) : line[i] \in Whitespace

\* C1: in both flows a run whose token exchange failed (HTTP error status or
\* any other exception) ends with a non-zero exit code, and exit code 0 is
\* produced only by a run whose exchange succeeded.
C1_FailedExchangeExitsNonZero ==
    pc = "exited" =>
        /\ (ExchangeFailed => exitCode # 0)
        /\ (exitCode = 0 => response.kind = "ok")

\* C2: local-redirect flow: at most one authorization code is captured per
\* run, the stored code is never overwritten by a later request, and the code
\* sent in the token exchange is the value of the first code callback.
C2_SingleCapture ==
    flow = "localhost" =>
        /\ captures <= 1
        /\ (auth_code # None => auth_code = firstCode)
        /\ (postCount > 0 => postCode = firstCode)

\* C3: local-redirect flow: whenever the browser has been opened with the
\* authorization URL, the listener had already bound the port (the listener
\* thread is past the creation of the server and the bind did not fail).
C3_BoundBeforeBrowser ==
    (flow = "localhost" /\ browser = "opened") =>
        lpc \notin {"idle", "bind", "dead"}

\* C4: local-redirect flow: once the completion signal has fired or the
\* 300-second timeout has elapsed (the listener's or the main thread's), the
\* listener dispatches no further inbound request.
C4_StopsAfterSignalOrTimeout ==
    [][(code_received \/ lTimedOut \/ mTimedOut) => handled' = handled]_vars

\* C5: local-redirect flow: if no callback carrying a code arrived before the
\* main thread's wait timed out, the run never posts to the token endpoint and
\* exits with a non-zero status.
C5_TimeoutNeverExchanges ==
    (flow = "localhost" /\ mTimedOut /\ ~codeBeforeTimeout) =>
        /\ postCount = 0
        /\ pc \notin {"post", "await_response"}
        /\ (pc = "exited" => exitCode = 1)

C7_ErrorStep ==
    /\ ((lpc = "respond_error" \/ lpc' = "respond_error") =>
           /\ auth_code' = auth_code
           /\ code_received' = code_received
           /\ ~code_received')
    /\ ((lpc = "respond_error" /\ lpc' # lpc) =>
           lastStatus' = 400 /\ lpc' = "loop")
    /\ ((lpc = "loop" /\ lpc' # lpc /\ ~code_received) => lpc' = "accept")

C7_EndsOnlyByTimeout ==
    (flow = "localhost" /\ creds /\ pc = "exited" /\ captures = 0) =>
        (mTimedOut /\ exitCode = 1 /\ postCount = 0)

C7_ErrorCallbackKeepsListening ==
    [][C7_ErrorStep]_vars /\ []C7_EndsOnlyByTimeout

C7_Witness ==
    /\ errorSeen
    /\ codeAfterError
    /\ lastStatus = 200
    /\ code_received
    /\ postCount = 1
    /\ postCode = auth_code

\* C8: local-redirect flow: the completion signal is set at most once, only
\* by the listener thread, and only after the code was stored: in every
\* reachable state "signal set" implies "a non-empty code is stored".
C8_SignalState ==
    /\ setCount <= 1
    /\ (code_received => Truthy(auth_code))
    /\ (code_received <=> setCount = 1)

C8_SignalImpliesCode ==
    []C8_SignalState
    /\ [][code_received' # code_received => (lpc = "set" /\ lpc' = "loop")]_vars

C8_Witness ==
    /\ code_received
    /\ setCount = 1
    /\ handled = 2
    /\ auth_code = Some(<<"B">>)

\* C9: manual flow: an empty or all-whitespace input line ends the run with a
\* non-zero exit code, without any POST to the token endpoint and without
\* writing the token file; the POST is made at most once per run and only
\* after a line with a non-empty code was entered.
C9_EmptyInputAborts ==
    flow = "manual" =>
        /\ postCount <= 1
        /\ ((inputLine # None /\ AllBlank(TheVal(inputLine))) =>
               /\ pc = "exited"
               /\ exitCode = 1
               /\ postCount = 0
               /\ fileWrites = 0
               /\ file = file0)
        /\ (postCount > 0 =>
               /\ inputLine # None
               /\ ~AllBlank(TheVal(inputLine))
               /\ Truthy(postCode))

C9_Witness ==
    /\ flow = "manual"
    /\ inputLine = Some(<<" ", "\t">>)
    /\ pc = "exited"
    /\ exitCode = 1

\* C10: local-redirect flow: after the wait returns the main thread tests the
\* stored code, not the wait's result: it goes on to the exchange iff a
\* non-empty code is stored at that moment and exits 1 otherwise; when it goes
\* on with the completion signal unset, the wait had timed out and the
\* listener is still dispatching requests.
C10_CheckStep ==
    (pc = "check" /\ pc' # pc) =>
        /\ (Truthy(auth_code) => pc' = "post")
        /\ (~Truthy(auth_code) => (pc' = "exited" /\ exitCode' = 1))
        /\ ((pc' = "post" /\ ~code_received) =>
               (mTimedOut /\ ListenerDispatching))

C10_ExchangeDecidedByStoredCode ==
    [][C10_CheckStep]_vars
    /\ []((flow = "localhost" /\ postCount > 0) => Truthy(postCode))

C10_Witness ==
    /\ pc = "post"
    /\ mTimedOut
    /\ ~code_received
    /\ Truthy(auth_code)
    /\ lpc = "accept"

====
